---- MODULE Spec2Model ----
(***************************************************************************)
(* SSVEP backend: the spectral feature extractor (backend/features.py),    *)
(* the /predict handler and the WebSocket ConnectionManager                *)
(* (backend/app/main.py), as one state machine.                            *)
(*                                                                         *)
(* Scheduling model: one asyncio event loop.  A coroutine runs without     *)
(* interruption from one await to the next, so every action below is the   *)
(* code between two consecutive suspension points of one coroutine.        *)
(***************************************************************************)
EXTENDS Integers, Sequences, FiniteSets, TLC

(* ------------------------------ bounds --------------------------------- *)
NumConns == 2
NumReqs == 1
MaxMsgs == 1
MaxChannels == 2
MaxSig == 3

Conns == 1..NumConns
(* The slots of /predict calls.  Spec has NumReqs calls in flight;          *)
(* OverlapSpec uses every slot, and there are two at least, for two calls   *)
(* that overlap.                                                            *)
Reqs == 1..(IF NumReqs < 2 THEN 2 ELSE NumReqs)

(* --------------------------- generic helpers --------------------------- *)
Range(s) == {s[i] : i \in 1..Len(s)}

Count(s, x) == Cardinality({i \in 1..Len(s) : s[i] = x})

NoDup(s) == \A i, j \in 1..Len(s) : i # j => s[i] # s[j]

RECURSIVE SumOver(_, _)
SumOver(f, S) ==
    IF S = {} THEN 0
    ELSE LET k == CHOOSE x \in S : TRUE IN f[k] + SumOver(f, S \ {k})

RECURSIVE GCD(_, _)
GCD(a, b) == IF b = 0 THEN a ELSE GCD(b, a % b)

(* An exact rational <<num, den>> in lowest terms: the value a float mean   *)
(* of integer PSD levels stands for.                                        *)
Frac(num, den) == LET g == GCD(num, den) IN
                  IF num = 0 THEN <<0, 1>> ELSE <<num \div g, den \div g>>

(* ======================= backend/features.py =========================== *)
(* Defaults of extract_ssvep_features.                                      *)
DefaultFs == 256
DefaultTargetFreqs == <<10, 12, 15, 20>>
DefaultHarmonics == <<1, 2, 3>>
(* band_width = 0.5, kept exact as numerator / denominator                  *)
DefaultBandWidth == <<1, 2>>
MaxSegment == 512

Min(a, b) == IF a < b THEN a ELSE b

(* scipy.signal.welch(sig, fs, nperseg): one-sided spectrum, bin k at       *)
(* frequency k * fs / nperseg for k = 0 .. nperseg \div 2.  An empty signal *)
(* yields no bins.                                                          *)
WelchBins(nperseg) == IF nperseg = 0 THEN {} ELSE 0..(nperseg \div 2)

(* The PSD estimate itself is scipy's; a channel signal is represented by   *)
(* an integer sig that fixes its spectrum: level 1 + (sig * k) % 7 in bin   *)
(* k, so that different bins and different channels carry different power. *)
WelchPsd(sig, nperseg) == [k \in WelchBins(nperseg) |-> 1 + ((sig * k) % 7)]

(* np.where((f >= freq - band_width) & (f <= freq + band_width))[0] with    *)
(* f[k] = k * fs / nperseg and band_width = bw[1] / bw[2], cross-multiplied *)
BandIdx(nperseg, fs, freq, bw) ==
    {k \in WelchBins(nperseg) :
        /\ k * fs * bw[2] >= (freq * bw[2] - bw[1]) * nperseg
        /\ k * fs * bw[2] <= (freq * bw[2] + bw[1]) * nperseg}

(* power = psd[idx].mean() if idx.size > 0 else 0.0                         *)
BandPower(psd, idx) ==
    IF Cardinality(idx) > 0 THEN Frac(SumOver(psd, idx), Cardinality(idx))
    ELSE <<0, 1>>

(* for h in harmonic_multipliers: freq = base_f * h; ...; append(power)     *)
RECURSIVE HarmonicLoop(_, _, _, _, _, _, _)
HarmonicLoop(psd, nperseg, fs, base_f, hs, bw, j) ==
    IF j > Len(hs) THEN <<>>
    ELSE <<BandPower(psd, BandIdx(nperseg, fs, base_f * hs[j], bw))>>
         \o HarmonicLoop(psd, nperseg, fs, base_f, hs, bw, j + 1)

(* Mutant: the two inner loops exchanged, harmonics outside frequencies.    *)
RECURSIVE FreqLoop_HarmonicsOuter(_, _, _, _, _, _, _)
FreqLoop_HarmonicsOuter(psd, nperseg, fs, fqs, hs, bw, j) ==
    IF j > Len(hs) THEN <<>>
    ELSE [i \in 1..Len(fqs) |->
             BandPower(psd, BandIdx(nperseg, fs, fqs[i] * hs[j], bw))]
         \o FreqLoop_HarmonicsOuter(psd, nperseg, fs, fqs, hs, bw, j + 1)

(* for base_f in target_freqs: for h in harmonic_multipliers: ...           *)
RECURSIVE FreqLoop(_, _, _, _, _, _, _)
FreqLoop(psd, nperseg, fs, fqs, hs, bw, i) ==
    IF i > Len(fqs) THEN <<>>
    ELSE HarmonicLoop(psd, nperseg, fs, fqs[i], hs, bw, 1)
         \o FreqLoop(psd, nperseg, fs, fqs, hs, bw, i + 1)

(* for ch in range(n_channels): welch(...); the two inner loops             *)
RECURSIVE ChannelLoop(_, _, _, _, _, _, _)
ChannelLoop(chans, n_samples, fs, fqs, hs, bw, ch) ==
    IF ch > Len(chans) THEN <<>>
    ELSE LET nperseg == Min(MaxSegment, n_samples)
             psd == WelchPsd(chans[ch], nperseg)
         IN  FreqLoop(psd, nperseg, fs, fqs, hs, bw, 1)
             \o ChannelLoop(chans, n_samples, fs, fqs, hs, bw, ch + 1)

(* X is a batch: [n_samples, trials], trials a sequence of trials, a trial  *)
(* a sequence of channel signals.  Returns one feature vector per trial.    *)
extract_ssvep_features(X, fs, target_freqs, harmonic_multipliers, band_width) ==
    [t \in 1..Len(X.trials) |->
        ChannelLoop(X.trials[t], X.n_samples, fs, target_freqs,
                    harmonic_multipliers, band_width, 1)]

(* ========================= backend/app/main.py ========================= *)
VARIABLES
    active_connections,  \* ConnectionManager.active_connections (a list)
    models,              \* names of the module-level models mapping
    wsPc,                \* position of each websocket_endpoint coroutine:
                         \* idle, accepting, receiving; over as closed (it
                         \* returned) or aborted (an exception left it)
    net,                 \* transport of each connection: up, down, hung
    rxCount,             \* number of inbound messages taken off the sockets
    pc,                  \* position of each /predict call
    req,                 \* PredictRequest of each call, <<>> before it arrives
    it,                  \* list-iterator index of "for ws in active_connections"
    cur,                 \* ws of the pending "await ws.send_json(message)"
    disconnected,        \* the local list disconnected of broadcast_json
    status,              \* HTTP status of the call, 0 while pending
    response,            \* <<response>> once returned, else <<>>
    calls,               \* history: messages passed to broadcast_json
    bdone,               \* history: broadcast_json of the call has returned
    attempted,           \* history: ws on which send_json was called, in order
    delivered,           \* history: ws whose send_json returned normally
    stayedLive,          \* history: live at entry of broadcast_json and not
                         \* removed by anybody else since
    disturbed,           \* history: another flow changed the list since the
                         \* call entered broadcast_json
    lateJoined,          \* history: listed ws whose connect completed while
                         \* some broadcast_json call was suspended in a send
    trial,               \* feature check: the batch handed to the extractor
    features,            \* feature check: <<result>> once extracted
    path                 \* feature check: "none", "train" or "online"

mgrVars == <<active_connections, models>>
wsVars == <<wsPc, net, rxCount>>
reqVars == <<pc, req, it, cur, disconnected, status, response>>
histVars == <<calls, bdone, attempted, delivered, stayedLive, disturbed,
              lateJoined>>
featVars == <<trial, features, path>>
vars == <<mgrVars, wsVars, reqVars, histVars, featVars>>

(* ----------------------------- Python lists ---------------------------- *)
Contains(list, x) == \E i \in 1..Len(list) : list[i] = x

(* list.remove(x): drops the first occurrence, ValueError when absent       *)
ListRemove(list, x) ==
    IF Contains(list, x)
    THEN LET p == CHOOSE i \in 1..Len(list) :
                      list[i] = x /\ \A j \in 1..(i - 1) : list[j] # x
         IN  [list |-> [k \in 1..(Len(list) - 1) |->
                            IF k < p THEN list[k] ELSE list[k + 1]],
              raised |-> FALSE]
    ELSE [list |-> list, raised |-> TRUE]

(* ------------------------- ConnectionManager --------------------------- *)
(* Mutant: the connection is listed a second time.                          *)
connect_Twice(list, websocket) == Append(Append(list, websocket), websocket)

(* connect, after "await websocket.accept()" has returned                   *)
connect(list, websocket) == Append(list, websocket)

(* Mutant: the membership test is left out.                                 *)
disconnect_Unguarded(list, websocket) == ListRemove(list, websocket)

(* disconnect: "if websocket in list: list.remove(websocket)"               *)
disconnect(list, websocket) ==
    IF Contains(list, websocket) THEN ListRemove(list, websocket)
    ELSE [list |-> list, raised |-> FALSE]

(* "for ws in disconnected: self.disconnect(ws)"                            *)
RECURSIVE Prune(_, _)
Prune(list, disc) ==
    IF disc = <<>> THEN [list |-> list, raised |-> FALSE]
    ELSE LET r == disconnect(list, Head(disc)) IN
         IF r.raised THEN r ELSE Prune(r.list, Tail(disc))

(* ------------------------------ /predict ------------------------------- *)
ModelNames == {"lda", "svm"}
(* model_name of a request: the default "lda", or a name never trained      *)
RequestNames == {"lda", "cnn"}

(* model.classes_ of the fitted pipelines: the four direction labels,      *)
(* sorted as scikit-learn sorts them                                        *)
Classes == <<"down", "left", "right", "up">>

(* predict_proba of a fitted pipeline is opaque but a fixed function: each  *)
(* pipeline answers with its own row, in percent.  The second row has a     *)
(* tie for the maximum.                                                     *)
ProbVectors == [lda |-> <<10, 60, 20, 10>>, svm |-> <<40, 40, 10, 10>>]

(* int(np.argmax(probs)): the first index holding the maximum               *)
ArgMax(probs) ==
    CHOOSE i \in 1..Len(probs) :
        /\ \A j \in 1..Len(probs) : probs[j] <= probs[i]
        /\ \A j \in 1..(i - 1) : probs[j] < probs[i]

(* lines 124-132: class_probs, pred_label, response                         *)
BuildResponse(model_name, classes, probs) ==
    [model_name |-> model_name,
     predicted_label |-> classes[ArgMax(probs)],
     class_probabilities |->
        [c \in Range(classes) |->
            probs[CHOOSE i \in 1..Len(classes) : classes[i] = c]]]

(* Mutant: the response is broadcast as it is, without its type.            *)
BroadcastMessage_Untyped(resp) == resp

(* lines 135-138: {"type": "prediction", **response}                        *)
BroadcastMessage(resp) == [type |-> "prediction"] @@ resp

(* req.data as the schema list[list[float]] lets it through: rows holds the *)
(* length of each inner list, chans the signal of each.  [] has no row, a   *)
(* matrix has rows of one length, a ragged list rows of different lengths.  *)
(* MatrixData has the eight channels of the training trials, NarrowData is  *)
(* a matrix of a single channel.                                            *)
EmptyData == [rows |-> <<>>, chans |-> <<>>]
MatrixData == [rows |-> <<64, 64, 64, 64, 64, 64, 64, 64>>,
               chans |-> <<1, 2, 3, 1, 2, 3, 1, 2>>]
NarrowData == [rows |-> <<64>>, chans |-> <<1>>]
RaggedData == [rows |-> <<2, 1>>, chans |-> <<1, 2>>]
RequestData == {EmptyData, MatrixData, NarrowData, RaggedData}

(* The requests: every kind of data under the default model name, and the   *)
(* well-formed trial under a name that is not registered.                   *)
Requests ==
    {rq \in [data : RequestData, model_name : RequestNames] :
        rq.model_name = "lda" \/ rq.data = MatrixData}

(* np.array(req.data, dtype=float) raises ValueError on rows of different   *)
(* lengths                                                                  *)
NpArrayRaises(data) ==
    \E i, j \in 1..Len(data.rows) : data.rows[i] # data.rows[j]

(* np.array(req.data, dtype=float) otherwise: [] gives a one-dimensional    *)
(* empty array, equal rows a channels x samples matrix                      *)
NpArray(data) ==
    [ndim |-> IF data.rows = <<>> THEN 1 ELSE 2,
     n_samples |-> IF data.rows = <<>> THEN 0 ELSE data.rows[1],
     chans |-> data.chans]

(* "if arr.ndim != 2: raise HTTPException(400)"                             *)
BadShape(arr) == arr.ndim # 2

(* "model = models.get(name); if model is None: raise HTTPException(400)"   *)
UnknownModel(registry, name) == name \notin registry

(* X = arr[np.newaxis, :, :]                                                *)
AddBatchDim(arr) == [n_samples |-> arr.n_samples, trials |-> <<arr.chans>>]

(* extract_ssvep_features(X) with every default                             *)
OnlineFeatures(arr) ==
    extract_ssvep_features(AddBatchDim(arr), DefaultFs, DefaultTargetFreqs,
                           DefaultHarmonics, DefaultBandWidth)

(* extract_ssvep_features is pure: X_feat of every request whose data is a  *)
(* matrix, computed once                                                    *)
RequestFeatures ==
    [data \in {d \in RequestData : ~NpArrayRaises(d) /\ ~BadShape(NpArray(d))}
        |-> OnlineFeatures(NpArray(data))]

(* generate_mock_ssvep(..., n_channels=8): the channels of the trials the   *)
(* pipelines are fitted on by train_models.py                               *)
TrainChannels == 8

(* the number of features of the fitted pipelines: the width of             *)
(* extract_ssvep_features(X_raw, fs=256) on the training trials             *)
FittedFeatures ==
    TrainChannels * Len(DefaultTargetFreqs) * Len(DefaultHarmonics)

(* model.predict_proba(X_feat) raises ValueError when the feature vector    *)
(* has another width than the pipeline was fitted on                        *)
PredictProbaRaises(X_feat) == Len(X_feat[1]) # FittedFeatures

(* model.predict_proba(X_feat)[0] of the named pipeline                     *)
PredictProba(name, X_feat) == ProbVectors[name]

(* "for ws in self.active_connections": one step of the list iterator,     *)
(* which reads the list as it is now at position idx                        *)
IterNext(list, idx) ==
    IF idx < Len(list) THEN [stop |-> FALSE, item |-> list[idx + 1]]
    ELSE [stop |-> TRUE, item |-> 0]

(* Mutant: a failed send is swallowed without being recorded.               *)
CollectFailure_Dropped(disc, ws, ok) == disc

(* "try: await ws.send_json(message) / except Exception:                    *)
(*  disconnected.append(ws)"                                                *)
CollectFailure(disc, ws, ok) == IF ok THEN disc ELSE Append(disc, ws)

(* send_json returns normally on a transport that is up and raises on one   *)
(* that is down; on a hung transport it does not return                     *)
SendOk(netstate) == netstate = "up"

(* "await websocket.accept(); self.active_connections.append(websocket)":   *)
(* the append is reached only when accept() has not raised                  *)
AppendReached(acceptRaised) == ~acceptRaised

(* --------------------------- history helpers --------------------------- *)
(* Calls other than the acting one: those suspended in a send, and those   *)
(* not yet answered.                                                        *)
Others(actor) == {q \in Reqs : q # actor /\ pc[q] = "sending"}

OthersOpen(actor) == {q \in Reqs : q # actor /\ pc[q] \in {"sending", "returned"}}

TouchStayed(actor, newList) ==
    [q \in Reqs |-> IF q \in Others(actor)
                    THEN stayedLive[q] \cap Range(newList)
                    ELSE stayedLive[q]]

TouchDisturbed(actor, newList) ==
    [q \in Reqs |-> IF q \in OthersOpen(actor) /\ newList # active_connections
                    THEN TRUE ELSE disturbed[q]]

(* ------------------------------- Init ---------------------------------- *)
NoTrial == [n_samples |-> 0, trials |-> <<>>]

MainInit ==
    /\ active_connections = <<>>
    /\ models = ModelNames
    /\ wsPc = [c \in Conns |-> "idle"]
    /\ net = [c \in Conns |-> "up"]
    /\ rxCount = 0
    /\ pc = [r \in Reqs |-> "idle"]
    /\ req = [r \in Reqs |-> <<>>]
    /\ it = [r \in Reqs |-> 0]
    /\ cur = [r \in Reqs |-> 0]
    /\ disconnected = [r \in Reqs |-> <<>>]
    /\ status = [r \in Reqs |-> 0]
    /\ response = [r \in Reqs |-> <<>>]
    /\ calls = [r \in Reqs |-> <<>>]
    /\ bdone = [r \in Reqs |-> FALSE]
    /\ attempted = [r \in Reqs |-> <<>>]
    /\ delivered = [r \in Reqs |-> {}]
    /\ stayedLive = [r \in Reqs |-> {}]
    /\ disturbed = [r \in Reqs |-> FALSE]
    /\ lateJoined = {}

Init ==
    /\ MainInit
    /\ trial = NoTrial
    /\ features = <<>>
    /\ path = "none"

(* ------------------------ websocket_endpoint --------------------------- *)
(* A client opens /ws: the endpoint calls manager.connect and suspends in   *)
(* "await websocket.accept()".  Connections in the handshake cannot be told *)
(* apart, so they are numbered in the order in which accept() returns.      *)
WsOpen(c) ==
    /\ wsPc[c] = "idle"
    /\ c > 1 => wsPc[c - 1] # "idle"
    /\ wsPc' = [wsPc EXCEPT ![c] = "accepting"]
    /\ UNCHANGED <<mgrVars, net, rxCount, reqVars, histVars, featVars>>

(* accept() returns: append, then suspend in "await receive_text()"; or    *)
(* the peer has gone during the handshake, accept() raises and the          *)
(* endpoint is left by the exception ("aborted").                           *)
AcceptReturn(c) ==
    /\ wsPc[c] = "accepting"
    /\ \A d \in 1..(c - 1) : wsPc[d] # "accepting"
    /\ \E acceptRaised \in BOOLEAN :
        /\ net' = [net EXCEPT ![c] = IF acceptRaised THEN "down" ELSE "up"]
        /\ wsPc' = [wsPc EXCEPT ![c] =
                        IF acceptRaised THEN "aborted" ELSE "receiving"]
        /\ IF AppendReached(acceptRaised)
           THEN LET newList == connect(active_connections, c) IN
                /\ active_connections' = newList
                /\ stayedLive' = TouchStayed(0, newList)
                /\ disturbed' = TouchDisturbed(0, newList)
                /\ lateJoined' = IF \E r \in Reqs : pc[r] = "sending"
                                 THEN lateJoined \cup {c} ELSE lateJoined
           ELSE UNCHANGED <<active_connections, stayedLive, disturbed,
                            lateJoined>>
    /\ UNCHANGED <<models, rxCount, reqVars, featVars,
                   calls, bdone, attempted, delivered>>

(* receive_text() returns a text message: it is dropped and the loop        *)
(* suspends in receive_text() again.                                        *)
ReceiveText(c) ==
    /\ wsPc[c] = "receiving"
    /\ net[c] = "up"
    /\ rxCount < MaxMsgs
    /\ rxCount' = rxCount + 1
    /\ UNCHANGED <<mgrVars, wsPc, net, reqVars, histVars, featVars>>

(* The peer sends a binary frame: receive_text() raises KeyError, which the *)
(* "except WebSocketDisconnect" does not catch.  The endpoint is left by    *)
(* the exception, manager.disconnect is not called and the connection      *)
(* stays in the list.                                                       *)
ReceiveBytes(c) ==
    /\ wsPc[c] = "receiving"
    /\ net[c] = "up"
    /\ rxCount < MaxMsgs
    /\ rxCount' = rxCount + 1
    /\ wsPc' = [wsPc EXCEPT ![c] = "aborted"]
    /\ UNCHANGED <<mgrVars, net, reqVars, histVars, featVars>>

(* receive_text() raises WebSocketDisconnect: manager.disconnect, and the   *)
(* endpoint returns.  A ValueError out of disconnect would escape it.       *)
DisconnectSignal(c) ==
    /\ wsPc[c] = "receiving"
    /\ net[c] = "down"
    /\ LET res == disconnect(active_connections, c) IN
       /\ active_connections' = res.list
       /\ wsPc' = [wsPc EXCEPT ![c] = IF res.raised THEN "crashed" ELSE "closed"]
       /\ stayedLive' = TouchStayed(0, res.list)
       /\ disturbed' = TouchDisturbed(0, res.list)
       /\ lateJoined' = lateJoined \cap Range(res.list)
    /\ UNCHANGED <<models, net, rxCount, reqVars, featVars,
                   calls, bdone, attempted, delivered>>

(* The peer goes away (close frame, reset), or the transport of an         *)
(* endpoint that was left by an exception is closed: sends on the           *)
(* connection fail from now on, and a receive loop still running will see   *)
(* a disconnect.                                                            *)
ClientClose(c) ==
    /\ wsPc[c] \in {"receiving", "aborted"}
    /\ net[c] \in {"up", "hung"}
    /\ net' = [net EXCEPT ![c] = "down"]
    /\ UNCHANGED <<mgrVars, wsPc, rxCount, reqVars, histVars, featVars>>

(* The peer stops reading without closing: a send to it does not complete.  *)
ClientStall(c) ==
    /\ wsPc[c] = "receiving"
    /\ net[c] = "up"
    /\ net' = [net EXCEPT ![c] = "hung"]
    /\ UNCHANGED <<mgrVars, wsPc, rxCount, reqVars, histVars, featVars>>

(* --------------------------- broadcast_json ---------------------------- *)
(* The loop of broadcast_json from iterator position idx with the local     *)
(* list disc, up to its next suspension: either the next send_json is       *)
(* called and awaited, or the iterator is exhausted, the collected          *)
(* connections are pruned, broadcast_json returns and predict returns its   *)
(* response.  mine is the call's own stayedLive entry.                      *)
BroadcastLoop(r, idx, disc, mine) ==
    LET nx == IterNext(active_connections, idx) IN
    IF ~nx.stop
    THEN /\ pc' = [pc EXCEPT ![r] = "sending"]
         /\ it' = [it EXCEPT ![r] = idx + 1]
         /\ cur' = [cur EXCEPT ![r] = nx.item]
         /\ disconnected' = [disconnected EXCEPT ![r] = disc]
         /\ attempted' = [attempted EXCEPT ![r] = Append(@, nx.item)]
         /\ stayedLive' = [stayedLive EXCEPT ![r] = mine]
         /\ UNCHANGED <<active_connections, status, bdone, disturbed,
                        lateJoined>>
    ELSE LET res == Prune(active_connections, disc) IN
         /\ active_connections' = res.list
         /\ pc' = [pc EXCEPT ![r] = "returned"]
         /\ it' = [it EXCEPT ![r] = 0]
         /\ cur' = [cur EXCEPT ![r] = 0]
         /\ disconnected' = [disconnected EXCEPT ![r] = disc]
         /\ status' = [status EXCEPT ![r] = IF res.raised THEN 500 ELSE 200]
         /\ bdone' = [bdone EXCEPT ![r] = ~res.raised]
         /\ stayedLive' = [TouchStayed(r, res.list) EXCEPT ![r] = mine]
         /\ disturbed' = TouchDisturbed(r, res.list)
         /\ lateJoined' = lateJoined \cap Range(res.list)
         /\ UNCHANGED attempted

(* POST /predict, from the arrival of the request to the first suspension   *)
(* of the handler.  A new call takes the lowest free slot.                  *)
Predict(r) ==
    /\ pc[r] = "idle"
    /\ \A q \in 1..(r - 1) : pc[q] # "idle"
    /\ \E rq \in Requests :
        LET data == rq.data
            name == rq.model_name IN
        /\ req' = [req EXCEPT ![r] = <<rq>>]
        /\ IF NpArrayRaises(data)
           THEN /\ pc' = [pc EXCEPT ![r] = "returned"]
                /\ status' = [status EXCEPT ![r] = 500]
                /\ UNCHANGED <<active_connections, it, cur, disconnected,
                               response, histVars>>
           ELSE LET arr == NpArray(data) IN
           IF BadShape(arr)
           THEN /\ pc' = [pc EXCEPT ![r] = "returned"]
                /\ status' = [status EXCEPT ![r] = 400]
                /\ UNCHANGED <<active_connections, it, cur, disconnected,
                               response, histVars>>
           ELSE LET X_feat == RequestFeatures[data] IN
                IF UnknownModel(models, name)
                THEN /\ pc' = [pc EXCEPT ![r] = "returned"]
                     /\ status' = [status EXCEPT ![r] = 400]
                     /\ UNCHANGED <<active_connections, it, cur, disconnected,
                                    response, histVars>>
                ELSE IF PredictProbaRaises(X_feat)
                THEN /\ pc' = [pc EXCEPT ![r] = "returned"]
                     /\ status' = [status EXCEPT ![r] = 500]
                     /\ UNCHANGED <<active_connections, it, cur, disconnected,
                                    response, histVars>>
                ELSE LET probs == PredictProba(name, X_feat)
                         resp == BuildResponse(name, Classes, probs) IN
                     /\ response' = [response EXCEPT ![r] = <<resp>>]
                     /\ calls' = [calls EXCEPT ![r] =
                                     Append(@, BroadcastMessage(resp))]
                     /\ BroadcastLoop(r, 0, <<>>, Range(active_connections))
                     /\ UNCHANGED delivered
    /\ UNCHANGED <<models, wsVars, featVars>>

(* The pending "await ws.send_json(message)" of call r returns or raises;   *)
(* the loop goes on to its next suspension or to the end of the call.       *)
SendReturn(r) ==
    /\ pc[r] = "sending"
    /\ net[cur[r]] # "hung"
    /\ LET ok == SendOk(net[cur[r]]) IN
       /\ delivered' = [delivered EXCEPT ![r] = IF ok THEN @ \cup {cur[r]} ELSE @]
       /\ BroadcastLoop(r, it[r],
                        CollectFailure(disconnected[r], cur[r], ok),
                        stayedLive[r])
    /\ UNCHANGED <<models, wsVars, featVars, req, response, calls>>

(* The HTTP response of a returned call has gone out and the call's frame   *)
(* is released: its slot is free for a later request.                       *)
Respond(r) ==
    /\ pc[r] = "returned"
    /\ pc' = [pc EXCEPT ![r] = "idle"]
    /\ req' = [req EXCEPT ![r] = <<>>]
    /\ disconnected' = [disconnected EXCEPT ![r] = <<>>]
    /\ status' = [status EXCEPT ![r] = 0]
    /\ response' = [response EXCEPT ![r] = <<>>]
    /\ calls' = [calls EXCEPT ![r] = <<>>]
    /\ bdone' = [bdone EXCEPT ![r] = FALSE]
    /\ attempted' = [attempted EXCEPT ![r] = <<>>]
    /\ delivered' = [delivered EXCEPT ![r] = {}]
    /\ stayedLive' = [stayedLive EXCEPT ![r] = {}]
    /\ disturbed' = [disturbed EXCEPT ![r] = FALSE]
    /\ UNCHANGED <<mgrVars, wsVars, it, cur, featVars, lateJoined>>

ConnNext ==
    \E c \in Conns :
        \/ WsOpen(c)
        \/ AcceptReturn(c)
        \/ ReceiveText(c)
        \/ ReceiveBytes(c)
        \/ DisconnectSignal(c)
        \/ ClientClose(c)

ReqNext ==
    \/ \E r \in 1..NumReqs : Predict(r)
    \/ \E r \in Reqs : SendReturn(r) \/ Respond(r)

Next == ConnNext \/ ReqNext

Spec == Init /\ [][Next]_vars

(* ------------------------- overlapping calls --------------------------- *)
(* The same system with two /predict calls in flight at least: a request    *)
(* may arrive while another call is suspended in a send.                    *)
OverlapNext ==
    ConnNext \/ \E r \in Reqs : Predict(r) \/ SendReturn(r) \/ Respond(r)

OverlapSpec == Init /\ [][OverlapNext]_vars

(* ----------------------- unresponsive subscribers ---------------------- *)
(* The same system with peers that may stop reading.  The event loop runs   *)
(* every coroutine that can run: a send_json that can return does return,   *)
(* an answered call is released, a pending disconnect is handled.  Nothing  *)
(* is assumed of the peers.                                                 *)
NextStall == Next \/ \E c \in Conns : ClientStall(c)

FairSpec ==
    /\ Init
    /\ [][NextStall]_vars
    /\ \A r \in Reqs : WF_vars(SendReturn(r)) /\ WF_vars(Respond(r))
    /\ \A c \in Conns : WF_vars(DisconnectSignal(c))

(* --------------------- feature extraction on its own ------------------- *)
(* Sample counts: below, at and above the segment cap of 512; 1792 is the   *)
(* length of a 7 s trial at 256 Hz.                                         *)
SampleCounts == {1, 64, 256, 512, 1792}

ChannelSeqs == UNION {[1..k -> 1..MaxSig] : k \in 1..MaxChannels}

FeatInit ==
    /\ MainInit
    /\ trial \in {[n_samples |-> n, trials |-> <<ch>>] :
                     n \in SampleCounts, ch \in ChannelSeqs}
    /\ features = <<>>
    /\ path = "none"

(* train_models.py line 54: extract_ssvep_features(X_raw, fs=256)           *)
TrainExtract ==
    /\ path = "none"
    /\ features' = <<extract_ssvep_features(trial, 256, DefaultTargetFreqs,
                                            DefaultHarmonics, DefaultBandWidth)>>
    /\ path' = "train"
    /\ UNCHANGED <<mgrVars, wsVars, reqVars, histVars, trial>>

(* main.py lines 103-114: the array of the request, batch dimension added,  *)
(* extract_ssvep_features(X)                                                *)
OnlineExtract ==
    /\ path = "none"
    /\ LET arr == [ndim |-> 2, n_samples |-> trial.n_samples,
                   chans |-> trial.trials[1]]
       IN  features' = <<OnlineFeatures(arr)>>
    /\ path' = "online"
    /\ UNCHANGED <<mgrVars, wsVars, reqVars, histVars, trial>>

FeatNext == TrainExtract \/ OnlineExtract

FeatSpec == FeatInit /\ [][FeatNext]_vars

(* ============================== claims ================================= *)
Live == Range(active_connections)

Returned200(r) == pc[r] = "returned" /\ status[r] = 200

(* C1: when a broadcast_json call has completed, every connection that was  *)
(* live when it started and that nobody removed while it ran has had        *)
(* send_json called on it exactly once by that call.                        *)
C1_StayedLiveAttemptedOnce ==
    \A r \in Reqs : Returned200(r) =>
        \A c \in stayedLive[r] : Count(attempted[r], c) = 1

(* C2: a broadcast_json call during which no other flow changed the list,   *)
(* over the N connections live at its start, attempts each of them once,    *)
(* delivers to exactly those whose send did not fail, and leaves exactly    *)
(* those in the live set.                                                   *)
C2_UndisturbedBroadcast ==
    \A r \in Reqs : (Returned200(r) /\ ~disturbed[r]) =>
        LET N == stayedLive[r]
            failed == Range(disconnected[r])
        IN  /\ Range(attempted[r]) = N
            /\ \A c \in N : Count(attempted[r], c) = 1
            /\ failed \subseteq N
            /\ delivered[r] = N \ failed
            /\ Live = N \ failed
            /\ NoDup(active_connections)

C2_Witness ==
    \E r \in Reqs :
        /\ Returned200(r) /\ ~disturbed[r]
        /\ Cardinality(stayedLive[r]) >= 2
        /\ disconnected[r] # <<>>
        /\ delivered[r] # {}

(* C3: active_connections never holds a connection twice.                   *)
C3_NoDuplicates == NoDup(active_connections)

C3_Witness ==
    /\ active_connections # <<>>
    /\ \E c \in Conns : wsPc[c] = "closed"
    /\ \E r \in Reqs : Returned200(r) /\ disconnected[r] # <<>>

(* C4: a call of broadcast_json never raises and /predict answers 200 with  *)
(* its response; and when some send failed, every other connection that     *)
(* stayed live through the call has still been attempted.                   *)
C4_FailureAbsorbed ==
    \A r \in Reqs : (pc[r] = "returned" /\ calls[r] # <<>>) =>
        /\ status[r] = 200
        /\ response[r] # <<>>
        /\ disconnected[r] # <<>> =>
              \A c \in stayedLive[r] : c \in Range(attempted[r])

(* C5: a /predict call that computed a prediction has called broadcast_json *)
(* exactly once, with the message {type: "prediction"} plus the fields of   *)
(* its response, and it answers only after that call has returned.          *)
C5_BroadcastOncePerPrediction ==
    \A r \in Reqs :
        /\ pc[r] = "sending" =>
              Len(calls[r]) = 1 /\ status[r] = 0 /\ ~bdone[r]
        /\ status[r] = 200 =>
              /\ Len(calls[r]) = 1
              /\ bdone[r]
              /\ Len(response[r]) = 1
              /\ response[r][1].model_name = req[r][1].model_name
              /\ calls[r][1] =
                    [type |-> "prediction",
                     model_name |-> response[r][1].model_name,
                     predicted_label |-> response[r][1].predicted_label,
                     class_probabilities |-> response[r][1].class_probabilities]

C5_Witness ==
    \E r \in Reqs : status[r] = 200 /\ delivered[r] # {}

(* C6: a request whose data is not a two-dimensional matrix (no row, or     *)
(* rows of different lengths), or whose model name is not registered, is    *)
(* answered 400 without any broadcast, and the step that serves it leaves   *)
(* the live set and the model mapping as they were.                         *)
NotMatrix(data) ==
    \/ data.rows = <<>>
    \/ \E i, j \in 1..Len(data.rows) : data.rows[i] # data.rows[j]

Invalid(rq) == NotMatrix(rq.data) \/ rq.model_name \notin {"lda", "svm"}

C6_RejectedWithoutBroadcast ==
    /\ [](\A r \in Reqs : (req[r] # <<>> /\ Invalid(req[r][1])) =>
            /\ pc[r] = "returned"
            /\ status[r] = 400
            /\ calls[r] = <<>>
            /\ attempted[r] = <<>>
            /\ response[r] = <<>>)
    /\ [][\A r \in Reqs : (req[r] = <<>> /\ req'[r] # <<>> /\ Invalid(req'[r][1])) =>
            /\ active_connections' = active_connections
            /\ models' = models]_vars

(* C9: a disconnect never raises; the step that handles a disconnect signal *)
(* for c, and the pruning at the end of a broadcast, leave the list as it   *)
(* was with just the named connections taken out -- unchanged when they     *)
(* were already absent.                                                     *)
Without(list, S) == SelectSeq(list, LAMBDA x : x \notin S)

C9_DisconnectIdempotent ==
    /\ [](/\ \A c \in Conns : wsPc[c] # "crashed"
          /\ \A r \in Reqs : calls[r] # <<>> => status[r] # 500)
    /\ [][/\ \A c \in Conns :
                (wsPc[c] = "receiving" /\ net[c] = "down"
                    /\ wsPc'[c] # "receiving") =>
                    /\ wsPc'[c] = "closed"
                    /\ active_connections' = Without(active_connections, {c})
          /\ \A r \in Reqs :
                (pc[r] # "returned" /\ pc'[r] = "returned" /\ calls'[r] # <<>>) =>
                    active_connections' =
                        Without(active_connections, Range(disconnected'[r]))]_vars

C9_Witness ==
    \E c \in Conns, r \in Reqs, q \in Reqs :
        /\ r # q
        /\ Returned200(r) /\ Returned200(q)
        /\ c \in Range(disconnected[r]) /\ c \in Range(disconnected[q])
        /\ wsPc[c] = "closed"
        /\ c \notin Live
        /\ active_connections # <<>>

(* C10: a connection enters the list only in the step in which its accept   *)
(* succeeds; every listed connection has its receive loop running, a loop   *)
(* that no inbound message ends: it ends only on a disconnect signal, in    *)
(* the step that takes the connection out; a connection once taken out      *)
(* never returns and no send_json is called on it afterwards.               *)
Removed(c) ==
    wsPc[c] \in {"receiving", "aborted", "closed", "crashed"} /\ c \notin Live

C10_Lifecycle ==
    /\ [](\A c \in Live : wsPc[c] = "receiving")
    /\ [][\A c \in Conns :
            /\ (c \notin Live /\ c \in Live') =>
                  wsPc[c] = "accepting" /\ wsPc'[c] = "receiving" /\ net'[c] = "up"
            /\ (rxCount' # rxCount) =>
                  active_connections' = active_connections /\ wsPc' = wsPc
            /\ (wsPc[c] = "receiving" /\ wsPc'[c] # "receiving") =>
                  net[c] = "down" /\ wsPc'[c] = "closed" /\ c \notin Live'
            /\ Removed(c) =>
                  /\ Removed(c)'
                  /\ \A r \in Reqs :
                        Len(attempted'[r]) > Len(attempted[r]) =>
                            attempted'[r][Len(attempted'[r])] # c]_vars

(* C11: broadcast_json is failure-then-prune.  A step of call r that goes  *)
(* on to a further send leaves the list as it was and at most appends the   *)
(* connection whose send has just failed to r's collection; the list is     *)
(* pruned only in the step that ends the call, when send_json has been      *)
(* called on every connection in the list, and that step takes out exactly  *)
(* the connections whose send failed in this call -- all of them and no     *)
(* other.                                                                   *)
C11_FailureThenPrune ==
    [][\A r \in Reqs :
         LET failedNow == IF pc[r] = "sending" /\ cur[r] \notin delivered'[r]
                          THEN <<cur[r]>> ELSE <<>>
         IN
         /\ (pc'[r] = "sending" /\ attempted'[r] # attempted[r]) =>
                /\ active_connections' = active_connections
                /\ disconnected'[r] = disconnected[r] \o failedNow
         /\ (pc[r] # "returned" /\ pc'[r] = "returned" /\ calls'[r] # <<>>) =>
                /\ Live \subseteq Range(attempted'[r])
                /\ disconnected'[r] = disconnected[r] \o failedNow
                /\ Range(disconnected'[r]) = Range(attempted'[r]) \ delivered'[r]
                /\ active_connections' =
                       Without(active_connections, Range(attempted'[r]) \ delivered'[r])
                /\ Live' \cap Range(disconnected'[r]) = {}]_vars

(* C12: a connection whose connect completed while a broadcast_json call  *)
(* was suspended in a send is attempted at most once by any one call; the   *)
(* step that ends a call takes it out of the live set only when its own     *)
(* send failed in that call; and every call that completes having entered   *)
(* broadcast_json while the connection was live, the connection staying     *)
(* live throughout, has called send_json on it.                             *)
C12_LateJoinerServed ==
    /\ [](\A c \in lateJoined, r \in Reqs :
            /\ Count(attempted[r], c) <= 1
            /\ (Returned200(r) /\ c \in stayedLive[r]) =>
                   c \in Range(attempted[r]))
    /\ [][\A c \in lateJoined, r \in Reqs :
            (pc[r] # "returned" /\ pc'[r] = "returned" /\ c \in Live) =>
                (c \in Live' \/ c \in Range(attempted'[r]) \ delivered'[r])]_vars

(* C7: a broadcast_json call suspended in a send always completes, and a   *)
(* connection whose send hangs is taken out of the live set.                *)
C7_BroadcastCompletes ==
    /\ \A r \in Reqs : (pc[r] = "sending") ~> (pc[r] = "returned")
    /\ \A r \in Reqs, c \in Conns :
          (pc[r] = "sending" /\ cur[r] = c /\ net[c] = "hung") ~> (c \notin Live)

(* C8: the feature vector of a trial of C channels has C * F * H entries,   *)
(* and the band power of channel c at target frequency i and harmonic j is  *)
(* entry c * F * H + i * H + j (counted from 0), on the training path and   *)
(* on the /predict path alike, whatever the sample count.                   *)
ConfiguredFreqs == <<10, 12, 15, 20>>
ConfiguredHarmonics == <<1, 2, 3>>

ExpectedPower(sig, n_samples, freq) ==
    LET nperseg == IF n_samples < 512 THEN n_samples ELSE 512
        inBand == {k \in 0..(nperseg \div 2) :
                      2 * k * 256 >= (2 * freq - 1) * nperseg
                   /\ 2 * k * 256 <= (2 * freq + 1) * nperseg}
        psd == WelchPsd(sig, nperseg)
    IN  IF inBand = {} THEN <<0, 1>>
        ELSE Frac(SumOver(psd, inBand), Cardinality(inBand))

C8_FeatureOrdering ==
    path # "none" =>
        LET v == features[1][1]
            chans == trial.trials[1]
            C == Len(chans)
            F == Len(ConfiguredFreqs)
            H == Len(ConfiguredHarmonics)
        IN  /\ Len(features[1]) = 1
            /\ Len(v) = C * F * H
            /\ \A c \in 0..(C - 1), i \in 0..(F - 1), j \in 0..(H - 1) :
                  v[c * F * H + i * H + j + 1] =
                      ExpectedPower(chans[c + 1], trial.n_samples,
                                    ConfiguredFreqs[i + 1] * ConfiguredHarmonics[j + 1])

C8_Witness ==
    /\ path = "online"
    /\ Len(trial.trials[1]) = 2
    /\ trial.n_samples = 64
    /\ \E p, q \in 1..Len(features[1][1]) :
          /\ features[1][1][p] = <<0, 1>>
          /\ features[1][1][q] # <<0, 1>>
          /\ features[1][1][q] # features[1][1][1 + (q % Len(features[1][1]))]

====
